---- MODULE Spec2Model ----
(***************************************************************************)
(* Model of src/main.py: the Freshdesk ticket monitor.                     *)
(*                                                                         *)
(* One asyncio event loop runs the request handlers (startup_event,        *)
(* shutdown_event, get_status, start_monitoring, stop_monitoring) and the  *)
(* background tasks created from monitor_tickets().  Code between two      *)
(* awaits that really suspend runs atomically; the suspension points are   *)
(* the first step of a created task, client.get (line 118), client.put     *)
(* (line 100), asyncio.sleep (line 145) and `await monitor_task` (lines    *)
(* 171, 215).  asyncio.CancelledError derives from BaseException, so no    *)
(* `except Exception` of the module catches it.                            *)
(*                                                                         *)
(* Configuration: the module binds POLLING_INTERVAL to the str "" (line    *)
(* 14) and binds no name `settings` (lines 15-25 are commented out), yet   *)
(* lines 93 and 112 read settings.FRESHDESK_DOMAIN.  Both are placeholders *)
(* a deployment fills in, so Init draws them: the module as written        *)
(* (settings = "unbound", POLLING_INTERVAL = "str") and the filled-in ones.*)
(***************************************************************************)
EXTENDS Integers, Sequences, FiniteSets, TLC

\* ---- bounds -------------------------------------------------------------
MaxTasks == 2       \* tasks asyncio.create_task may create in one run
MaxCycles == 2      \* cycles the tasks of one run may begin, all together
MaxLen == 3         \* length of the sequence one fetch returns
MaxLiveLen == 1     \* the same, in the specification with fairness

VARIABLES
  settings,          \* "bound" | "unbound": is the global name `settings` bound
  POLLING_INTERVAL,  \* "str" | "int": type of the value bound at line 14
  phase,             \* "init" | "serving" | "shutting_down" | "down"
  is_monitoring,     \* line 61
  monitor_task,      \* line 60: 0 is None, else the id of a task
  tasks,             \* id -> state of the monitor_tickets() task
  waiter,            \* id -> handler suspended in `await monitor_task`
  response           \* outcome of the handler that completed last

vars == <<settings, POLLING_INTERVAL, phase, is_monitoring, monitor_task,
          tasks, waiter, response>>

TaskIds == 1..MaxTasks

\* ---- ticket records (elements of response.json()) ------------------------
\* A key of the mapping is absent or bound to an int.
IntField(n) == [k |-> "int", v |-> n]
AbsentField == [k |-> "absent", v |-> 0]

Mapping(i, s, p) == [mapping |-> TRUE, id |-> i, status |-> s, priority |-> p]
\* an element that is not a dict (a str, a list, a number, None)
NonMapping == [mapping |-> FALSE, id |-> AbsentField, status |-> AbsentField,
               priority |-> AbsentField]

Tickets ==
  { Mapping(IntField(1), IntField(2), IntField(1)),   \* open, low priority
    Mapping(IntField(2), IntField(1), IntField(1)),   \* not open
    Mapping(IntField(3), IntField(2), IntField(3)),   \* open, priority 3
    Mapping(IntField(4), IntField(2), AbsentField),   \* no priority key
    NonMapping }

TicketSeqs == UNION { [1..n -> Tickets] : n \in 0..MaxLen }
LiveTicketSeqs == UNION { [1..n -> Tickets] : n \in 0..MaxLiveLen }

WellFormed(ticket) ==
  /\ ticket.mapping
  /\ ticket.id.k = "int" /\ ticket.status.k = "int" /\ ticket.priority.k = "int"

\* the rule of line 81
Matches(ticket) ==
  /\ ticket.status.k = "int" /\ ticket.status.v = 2
  /\ ticket.priority.k = "int" /\ ticket.priority.v < 3

\* ---- process_ticket, lines 63-86, up to its call of update_ticket --------
\* "update": update_ticket(ticket_id, {"priority": 3}) is called (line 82)
\* "none"  : the condition of line 81 is false
\* "caught": an exception was caught and logged at lines 85-86
\* "raises": the handler of line 86 itself raised (ticket.get on a non-dict)
process_ticket(ticket) ==
  LET exc == \/ ~ticket.mapping                        \* ticket['id']: TypeError
             \/ ticket.id.k = "absent"                 \* KeyError, line 70
             \/ ticket.status.k = "absent"             \* KeyError, line 71
             \/ ticket.priority.k = "absent"           \* KeyError, line 72
  IN IF exc
       THEN IF ticket.mapping THEN "caught" ELSE "raises"
       ELSE IF Matches(ticket) THEN "update" ELSE "none"

\* ---- the monitor_tickets() task -----------------------------------------
NoTask ==
  [pc |-> "none", cancel |-> FALSE, result |-> "none", cycle |-> 0,
   tickets |-> <<>>, idx |-> 0, evaluated |-> 0, updates |-> <<>>,
   failed |-> {}, prev_failed |-> {}, summary |-> -1,
   fetch_failed |-> FALSE, loop_error |-> FALSE]

\* asyncio.create_task(monitor_tickets()): scheduled, first step not yet run
NewTask == [NoTask EXCEPT !.pc = "created"]

Created == { t \in TaskIds : tasks[t].pc # "none" }
Active == { t \in TaskIds : tasks[t].pc \notin {"none", "done"} }

\* the coroutine has ended: its frame (tickets, the loop position) is gone;
\* what its last cycle logged stays in the log
Ended(tk, res) ==
  [NoTask EXCEPT !.pc = "done", !.result = res, !.cycle = tk.cycle,
                 !.cancel = tk.cancel, !.summary = tk.summary,
                 !.fetch_failed = tk.fetch_failed,
                 !.loop_error = tk.loop_error]

\* line 145: await asyncio.sleep(POLLING_INTERVAL).  sleep() evaluates
\* `delay <= 0`, which raises TypeError for a str; the await is outside the
\* try of lines 132-142, so the coroutine ends with that exception.
SleepStep(tk) ==
  IF POLLING_INTERVAL = "int"
    THEN [tk EXCEPT !.pc = "sleep"]
    ELSE Ended(tk, "TypeError")

\* lines 136-142 from position i of the fetched sequence up to the next
\* suspension point
RECURSIVE ProcessFrom(_, _)
ProcessFrom(tk, i) ==
  IF i > Len(tk.tickets)
    THEN SleepStep([tk EXCEPT !.summary = Len(tk.tickets)])       \* line 139
    ELSE LET r == process_ticket(tk.tickets[i])
             ev == [tk EXCEPT !.evaluated = i]
         IN CASE r = "update" ->
                   IF settings = "bound"
                     THEN [ev EXCEPT !.pc = "update", !.idx = i,
                             !.updates = Append(@,
                                [pos |-> i, id |-> tk.tickets[i].id.v,
                                 payload |-> [priority |-> 3]])]
                     \* line 93 raises NameError before the PUT; caught at 85
                     ELSE ProcessFrom([ev EXCEPT !.failed = @ \cup {i},
                             !.updates = Append(@,
                                [pos |-> i, id |-> tk.tickets[i].id.v,
                                 payload |-> [priority |-> 3]])], i + 1)
              [] r = "raises" ->
                   SleepStep([ev EXCEPT !.loop_error = TRUE])     \* line 142
              [] OTHER -> ProcessFrom(ev, i + 1)

\* line 131 and the start of a cycle, up to the next suspension point
LoopHead(tk) ==
  IF ~is_monitoring
    THEN Ended(tk, "returned")
    ELSE LET c == [tk EXCEPT !.cycle = @ + 1, !.tickets = <<>>, !.idx = 0,
                     !.evaluated = 0, !.updates = <<>>, !.failed = {},
                     \* ids whose update failed in the cycle just finished
                     !.prev_failed = { tk.tickets[i].id.v : i \in tk.failed },
                     !.summary = -1, !.fetch_failed = FALSE,
                     !.loop_error = FALSE]
         IN IF settings = "unbound"
              \* line 112 raises NameError outside the try of line 117;
              \* it is caught at line 141
              THEN SleepStep([c EXCEPT !.fetch_failed = TRUE,
                                !.loop_error = TRUE])
              ELSE [c EXCEPT !.pc = "fetch"]                       \* line 118

Init ==
  /\ settings \in {"unbound", "bound"}
  /\ POLLING_INTERVAL \in {"str", "int"}
  /\ phase = "init"
  /\ is_monitoring = FALSE
  /\ monitor_task = 0
  /\ tasks = [t \in TaskIds |-> NoTask]
  /\ waiter = [t \in TaskIds |-> "none"]
  /\ response = [handler |-> "none", status |-> 0, detail |-> ""]

Config == <<settings, POLLING_INTERVAL>>

\* cycles begun so far by all tasks
CyclesBegun ==
  LET S[n \in 0..MaxTasks] == IF n = 0 THEN 0 ELSE S[n - 1] + tasks[n].cycle
  IN S[MaxTasks]

\* first step of a created task
TaskStart(t) ==
  /\ tasks[t].pc = "created" /\ ~tasks[t].cancel
  /\ CyclesBegun < MaxCycles
  /\ tasks' = [tasks EXCEPT ![t] = LoopHead(tasks[t])]
  /\ UNCHANGED <<Config, phase, is_monitoring, monitor_task, waiter, response>>

\* a fetch whose handler of line 121 also catches the cancellation
FetchReturnFrom_IgnoresCancel(t, S) ==
  /\ tasks[t].pc = "fetch"
  /\ \/ tasks' = [tasks EXCEPT ![t] =
                    ProcessFrom([tasks[t] EXCEPT !.fetch_failed = TRUE], 1)]
     \/ \E s \in S :
          tasks' = [tasks EXCEPT ![t] =
                      ProcessFrom([tasks[t] EXCEPT !.tickets = s], 1)]
  /\ UNCHANGED <<Config, phase, is_monitoring, monitor_task, waiter, response>>

\* client.get completes (lines 118-123) with a failure, which inside the
\* try yields [], or with a sequence of S
FetchReturnFrom(t, S) ==
  /\ tasks[t].pc = "fetch" /\ ~tasks[t].cancel
  /\ \/ tasks' = [tasks EXCEPT ![t] =
                    ProcessFrom([tasks[t] EXCEPT !.fetch_failed = TRUE], 1)]
     \/ \E s \in S :
          tasks' = [tasks EXCEPT ![t] =
                      ProcessFrom([tasks[t] EXCEPT !.tickets = s], 1)]
  /\ UNCHANGED <<Config, phase, is_monitoring, monitor_task, waiter, response>>

FetchReturn(t) == FetchReturnFrom(t, TicketSeqs)
LiveFetchReturn(t) == FetchReturnFrom(t, LiveTicketSeqs)

\* client.put completes (lines 100-105); a failure is re-raised at line 105
\* and caught by process_ticket at line 85
UpdateReturn(t) ==
  /\ tasks[t].pc = "update" /\ ~tasks[t].cancel
  /\ \E ok \in BOOLEAN :
       LET tk == tasks[t]
           u == IF ok THEN tk ELSE [tk EXCEPT !.failed = @ \cup {tk.idx}]
       IN tasks' = [tasks EXCEPT ![t] = ProcessFrom(u, tk.idx + 1)]
  /\ UNCHANGED <<Config, phase, is_monitoring, monitor_task, waiter, response>>

\* a sleep that runs to its end although Task.cancel() was called
SleepElapsed_IgnoresCancel(t) ==
  /\ tasks[t].pc = "sleep"
  /\ CyclesBegun < MaxCycles
  /\ tasks' = [tasks EXCEPT ![t] = LoopHead(tasks[t])]
  /\ UNCHANGED <<Config, phase, is_monitoring, monitor_task, waiter, response>>

\* asyncio.sleep returns (line 145) and the loop condition is read again
SleepElapsed(t) ==
  /\ tasks[t].pc = "sleep" /\ ~tasks[t].cancel
  /\ CyclesBegun < MaxCycles
  /\ tasks' = [tasks EXCEPT ![t] = LoopHead(tasks[t])]
  /\ UNCHANGED <<Config, phase, is_monitoring, monitor_task, waiter, response>>

\* a cancellation that takes effect in the sleep only
TaskCancelled_AtSleepOnly(t) ==
  /\ tasks[t].pc = "sleep"
  /\ tasks[t].cancel
  /\ tasks' = [tasks EXCEPT ![t] = Ended(tasks[t], "cancelled")]
  /\ UNCHANGED <<Config, phase, is_monitoring, monitor_task, waiter, response>>

\* the step after Task.cancel(): CancelledError is thrown into the
\* coroutine at its suspension point and ends it
TaskCancelled(t) ==
  /\ tasks[t].pc \in {"created", "fetch", "update", "sleep"}
  /\ tasks[t].cancel
  /\ tasks' = [tasks EXCEPT ![t] = Ended(tasks[t], "cancelled")]
  /\ UNCHANGED <<Config, phase, is_monitoring, monitor_task, waiter, response>>

\* ---- the handlers --------------------------------------------------------
Reply(h, st, d) == [handler |-> h, status |-> st, detail |-> d]

\* Task.cancel() that requests nothing
Cancel_NoRequest(t) == tasks

\* Task.cancel(): no effect on a task that is done, else a request the task
\* meets at its next step, where CancelledError is thrown into the
\* coroutine.  The coroutine reads none of its locals after that, so of a
\* task with a pending request only the suspension point and the count of
\* its cycles are kept.
Cancel(t) ==
  IF tasks[t].pc = "done" THEN tasks
  ELSE [tasks EXCEPT ![t] = [NoTask EXCEPT !.pc = tasks[t].pc,
                                           !.cycle = tasks[t].cycle,
                                           !.cancel = TRUE]]

\* `await monitor_task` on a task that is done, inside
\* `try ... except asyncio.CancelledError: pass` (lines 170-173, 214-217):
\* any other exception of the task propagates out of the handler, which
\* the server answers with 500
AwaitDone(h, t, d) ==
  IF tasks[t].result \in {"cancelled", "returned"}
    THEN Reply(h, 200, d)
    ELSE Reply(h, 500, tasks[t].result)

\* a startup that creates the task and leaves the flag as it was
startup_event_NoFlag ==
  /\ phase = "init"
  /\ phase' = "serving"
  /\ IF ~is_monitoring
       THEN /\ monitor_task' = Cardinality(Created) + 1
            /\ tasks' = [tasks EXCEPT ![Cardinality(Created) + 1] = NewTask]
            /\ UNCHANGED is_monitoring
       ELSE UNCHANGED <<is_monitoring, monitor_task, tasks>>
  /\ response' = Reply("startup", 200, "")
  /\ UNCHANGED <<Config, waiter>>

\* lines 147-157
startup_event ==
  /\ phase = "init"
  /\ phase' = "serving"
  /\ IF ~is_monitoring
       THEN /\ is_monitoring' = TRUE
            /\ monitor_task' = Cardinality(Created) + 1
            /\ tasks' = [tasks EXCEPT ![Cardinality(Created) + 1] = NewTask]
       ELSE UNCHANGED <<is_monitoring, monitor_task, tasks>>
  /\ response' = Reply("startup", 200, "")
  /\ UNCHANGED <<Config, waiter>>

\* a status that reports whether a task handle is held, not the flag
get_status_ReportsHandle ==
  /\ phase = "serving"
  /\ response' = Reply("status", 200,
                       IF monitor_task # 0 THEN "is_monitoring: true"
                                           ELSE "is_monitoring: false")
  /\ UNCHANGED <<Config, phase, is_monitoring, monitor_task, tasks, waiter>>

\* lines 176-185
get_status ==
  /\ phase = "serving"
  /\ response' = Reply("status", 200,
                       IF is_monitoring THEN "is_monitoring: true"
                                        ELSE "is_monitoring: false")
  /\ UNCHANGED <<Config, phase, is_monitoring, monitor_task, tasks, waiter>>

\* start_monitoring without the check of lines 194-195
start_monitoring_NoGuard ==
  /\ phase = "serving"
  /\ Cardinality(Created) < MaxTasks
  /\ is_monitoring' = TRUE
  /\ monitor_task' = Cardinality(Created) + 1
  /\ tasks' = [tasks EXCEPT ![Cardinality(Created) + 1] = NewTask]
  /\ response' = Reply("start", 200, "Monitoring started")
  /\ UNCHANGED <<Config, phase, waiter>>

\* lines 187-199
start_monitoring ==
  /\ phase = "serving"
  /\ IF is_monitoring
       THEN /\ response' = Reply("start", 400, "Monitoring is already running")
            /\ UNCHANGED <<is_monitoring, monitor_task, tasks>>
       ELSE /\ Cardinality(Created) < MaxTasks
            /\ is_monitoring' = TRUE
            /\ monitor_task' = Cardinality(Created) + 1
            /\ tasks' = [tasks EXCEPT ![Cardinality(Created) + 1] = NewTask]
            /\ response' = Reply("start", 200, "Monitoring started")
  /\ UNCHANGED <<Config, phase, waiter>>

\* stop_monitoring without the check of lines 208-209
stop_monitoring_NoGuard ==
  /\ phase = "serving"
  /\ is_monitoring' = FALSE
  /\ UNCHANGED monitor_task
  /\ IF monitor_task = 0
       THEN /\ response' = Reply("stop", 200, "Monitoring stopped")
            /\ UNCHANGED <<tasks, waiter>>
       ELSE /\ tasks' = Cancel(monitor_task)
            /\ IF tasks[monitor_task].pc = "done"
                 THEN /\ response' = AwaitDone("stop", monitor_task,
                                               "Monitoring stopped")
                      /\ UNCHANGED waiter
                 ELSE /\ waiter' = [waiter EXCEPT ![monitor_task] = "stop"]
                      /\ UNCHANGED response
  /\ UNCHANGED <<Config, phase>>

\* lines 201-219, up to the suspension in `await monitor_task`
stop_monitoring ==
  /\ phase = "serving"
  /\ IF ~is_monitoring
       THEN /\ response' = Reply("stop", 400, "Monitoring is not running")
            /\ UNCHANGED <<is_monitoring, monitor_task, tasks, waiter>>
       ELSE /\ is_monitoring' = FALSE
            /\ UNCHANGED monitor_task
            /\ IF monitor_task = 0
                 THEN /\ response' = Reply("stop", 200, "Monitoring stopped")
                      /\ UNCHANGED <<tasks, waiter>>
                 ELSE /\ tasks' = Cancel(monitor_task)
                      /\ IF tasks[monitor_task].pc = "done"
                           THEN /\ response' = AwaitDone("stop", monitor_task,
                                                         "Monitoring stopped")
                                /\ UNCHANGED waiter
                           ELSE /\ waiter' = [waiter EXCEPT
                                                ![monitor_task] = "stop"]
                                /\ UNCHANGED response
  /\ UNCHANGED <<Config, phase>>

\* stop_monitoring resumes when the awaited task is done (lines 215-219)
StopResume(t) ==
  /\ waiter[t] = "stop" /\ tasks[t].pc = "done"
  /\ waiter' = [waiter EXCEPT ![t] = "none"]
  /\ response' = AwaitDone("stop", t, "Monitoring stopped")
  /\ UNCHANGED <<Config, phase, is_monitoring, monitor_task, tasks>>

\* lines 159-174, up to the suspension in `await monitor_task`
shutdown_event ==
  /\ phase = "serving"
  /\ UNCHANGED <<Config, monitor_task>>
  /\ IF ~is_monitoring
       THEN /\ phase' = "down"
            /\ response' = Reply("shutdown", 200, "")
            /\ UNCHANGED <<is_monitoring, tasks, waiter>>
       ELSE /\ is_monitoring' = FALSE
            /\ IF monitor_task = 0
                 THEN /\ phase' = "down"
                      /\ response' = Reply("shutdown", 200, "")
                      /\ UNCHANGED <<tasks, waiter>>
                 ELSE /\ tasks' = Cancel(monitor_task)
                      /\ IF tasks[monitor_task].pc = "done"
                           THEN /\ phase' = "down"
                                /\ response' = AwaitDone("shutdown",
                                                         monitor_task, "")
                                /\ UNCHANGED waiter
                           ELSE /\ phase' = "shutting_down"
                                /\ waiter' = [waiter EXCEPT
                                                ![monitor_task] = "shutdown"]
                                /\ UNCHANGED response

\* shutdown_event resumes when the awaited task is done (lines 171-174)
ShutdownResume(t) ==
  /\ waiter[t] = "shutdown" /\ tasks[t].pc = "done"
  /\ waiter' = [waiter EXCEPT ![t] = "none"]
  /\ phase' = "down"
  /\ response' = AwaitDone("shutdown", t, "")
  /\ UNCHANGED <<Config, is_monitoring, monitor_task, tasks>>

Next ==
  \/ startup_event
  \/ get_status
  \/ start_monitoring
  \/ stop_monitoring
  \/ shutdown_event
  \/ \E t \in TaskIds : StopResume(t)
  \/ \E t \in TaskIds : ShutdownResume(t)
  \/ \E t \in TaskIds : TaskStart(t)
  \/ \E t \in TaskIds : FetchReturn(t)
  \/ \E t \in TaskIds : UpdateReturn(t)
  \/ \E t \in TaskIds : SleepElapsed(t)
  \/ \E t \in TaskIds : TaskCancelled(t)

Spec == Init /\ [][Next]_vars

\* The same program with shorter fetched sequences, under the fairness the
\* event loop gives: the wakeup Task.cancel() schedules for the task is
\* run, and a handler suspended in `await monitor_task` is resumed once
\* the task is done.  Nothing is assumed of the I/O the tasks wait for.
LiveNext ==
  \/ startup_event
  \/ get_status
  \/ start_monitoring
  \/ stop_monitoring
  \/ shutdown_event
  \/ \E t \in TaskIds : StopResume(t)
  \/ \E t \in TaskIds : ShutdownResume(t)
  \/ \E t \in TaskIds : TaskStart(t)
  \/ \E t \in TaskIds : LiveFetchReturn(t)
  \/ \E t \in TaskIds : UpdateReturn(t)
  \/ \E t \in TaskIds : SleepElapsed(t)
  \/ \E t \in TaskIds : TaskCancelled(t)

LiveSpec ==
  /\ Init /\ [][LiveNext]_vars
  /\ \A t \in TaskIds : WF_vars(TaskCancelled(t))
  /\ \A t \in TaskIds : WF_vars(StopResume(t))
  /\ \A t \in TaskIds : WF_vars(ShutdownResume(t))

TypeOK ==
  /\ settings \in {"unbound", "bound"}
  /\ POLLING_INTERVAL \in {"str", "int"}
  /\ phase \in {"init", "serving", "shutting_down", "down"}
  /\ is_monitoring \in BOOLEAN
  /\ monitor_task \in 0..MaxTasks
  /\ \A t \in TaskIds :
       /\ tasks[t].pc \in {"none", "created", "fetch", "update", "sleep", "done"}
       /\ tasks[t].result \in {"none", "cancelled", "returned", "TypeError"}
       /\ waiter[t] \in {"none", "stop", "shutdown"}

\* ---- properties ----------------------------------------------------------

\* C1: in every reachable state at most one monitor_tickets task is active
\* (created and not yet terminated).
C1_AtMostOneActiveTask == Cardinality(Active) <= 1

\* C2: start_monitoring called while is_monitoring is true answers 400
\* "already running", creates no task and leaves is_monitoring, monitor_task
\* and the tasks unchanged; a start that succeeds creates exactly one task
\* and sets the flag, which only stop_monitoring or shutdown_event clear, so
\* a second start with no stop in between is the failing one.
C2_StartWhileRunningFails ==
  [][ /\ (start_monitoring /\ is_monitoring) =>
           /\ response' = Reply("start", 400, "Monitoring is already running")
           /\ UNCHANGED <<is_monitoring, monitor_task, tasks, waiter>>
      /\ (start_monitoring /\ ~is_monitoring) =>
           /\ is_monitoring'
           /\ Cardinality(Created') = Cardinality(Created) + 1
           /\ response' = Reply("start", 200, "Monitoring started")
      /\ (is_monitoring /\ ~is_monitoring') =>
           (stop_monitoring \/ shutdown_event)
    ]_vars

\* a start has succeeded (the second task exists) and the next start failed
C2_Witness ==
  /\ response = Reply("start", 400, "Monitoring is already running")
  /\ is_monitoring
  /\ Cardinality(Created) = 2

\* C3: stop_monitoring called while is_monitoring is false answers 400
\* "not running", cancels no task and leaves is_monitoring, monitor_task and
\* the tasks unchanged.
C3_StopWhileStoppedFails ==
  [][ (stop_monitoring /\ ~is_monitoring) =>
        /\ response' = Reply("stop", 400, "Monitoring is not running")
        /\ UNCHANGED <<is_monitoring, monitor_task, tasks, waiter>>
    ]_vars

\* a stop was refused while a task that an earlier stop cancelled exists
C3_Witness ==
  /\ response = Reply("stop", 400, "Monitoring is not running")
  /\ ~is_monitoring
  /\ monitor_task # 0

\* C4: a stop_monitoring that found is_monitoring true always ends with
\* "Monitoring stopped": awaiting the task never surfaces an error.
C4_StopAlwaysSucceeds ==
  (response.handler = "stop" /\ response.status # 400) =>
     response = Reply("stop", 200, "Monitoring stopped")

\* C5: a monitor_tickets task that has terminated was cancelled; it never
\* ends on its own.
C5_EndsOnlyByCancellation ==
  \A t \in TaskIds :
     tasks[t].pc = "done" => (tasks[t].result = "cancelled" /\ tasks[t].cancel)

\* C6: a cycle whose fetch failed issued no update call, logged a summary of
\* zero processed tickets, raised nothing and went on to the sleep.
C6_FetchFailureIsEmptyCycle ==
  \A t \in TaskIds :
     tasks[t].fetch_failed =>
        /\ tasks[t].updates = <<>>
        /\ tasks[t].summary = 0
        /\ ~tasks[t].loop_error
        /\ tasks[t].pc = "sleep"

\* the task has finished a cycle and sleeps; no cancellation is pending
CycleEnded(t) == tasks[t].pc = "sleep" /\ ~tasks[t].cancel

\* C7: in a cycle that was not cancelled, after the update of the ticket at
\* position i failed every ticket at a position j > i has been evaluated
\* and, where it matches the rule, an update call was issued for it.
C7_UpdateFailureDoesNotStopCycle ==
  \A t \in TaskIds :
     CycleEnded(t) =>
        \A i \in tasks[t].failed :
           \A j \in (i + 1)..Len(tasks[t].tickets) :
              /\ j <= tasks[t].evaluated
              /\ process_ticket(tasks[t].tickets[j]) = "update" =>
                   \E k \in 1..Len(tasks[t].updates) :
                      tasks[t].updates[k].pos = j

\* C8: process_ticket raises for no element, so a cycle whose fetch
\* succeeded evaluates every element and logs its summary.
C8_MalformedTicketNeverRaises ==
  \A t \in TaskIds :
     (CycleEnded(t) /\ ~tasks[t].fetch_failed) =>
        /\ ~tasks[t].loop_error
        /\ tasks[t].evaluated = Len(tasks[t].tickets)
        /\ tasks[t].summary = Len(tasks[t].tickets)

\* the update calls a completed cycle owes: one per occurrence of a
\* well-formed ticket with status = 2 and priority < 3, in order
RECURSIVE Owed(_, _)
Owed(s, i) ==
  IF i > Len(s) THEN <<>>
  ELSE (IF WellFormed(s[i]) /\ s[i].status.v = 2 /\ s[i].priority.v < 3
          THEN <<[pos |-> i, id |-> s[i].id.v, payload |-> [priority |-> 3]]>>
          ELSE <<>>) \o Owed(s, i + 1)

\* C9: a cycle issues an update call for a well-formed ticket of the
\* fetched sequence if and only if status = 2 and priority < 3, with the
\* ticket's id and the payload {priority: 3}, once per occurrence.
C9_UpdateIffRuleMatches ==
  \A t \in TaskIds :
     CycleEnded(t) => tasks[t].updates = Owed(tasks[t].tickets, 1)

\* an outbound call of the task is outstanding: it is suspended in
\* client.get or client.put, and Task.cancel() has not cancelled that await
Outstanding(t) == tasks[t].pc \in {"fetch", "update"} /\ ~tasks[t].cancel

C11_CancelDuringSleepEndsTask ==
  [][ \A t \in TaskIds :
         (tasks[t].pc = "sleep" /\ tasks[t].cancel) =>
            \/ tasks'[t] = tasks[t]
            \/ /\ tasks'[t].pc = "done"
               /\ tasks'[t].result = "cancelled"
               /\ tasks'[t].cycle = tasks[t].cycle
               /\ tasks'[t].updates = <<>>
    ]_vars

\* stop_monitoring has requested the cancellation of a task that sleeps
\* after a cycle, and waits for it
C11_Witness ==
  \E t \in TaskIds :
     /\ tasks[t].pc = "sleep" /\ tasks[t].cancel
     /\ tasks[t].cycle >= 1
     /\ waiter[t] = "stop"

\* C12: get_status reflects the lifecycle operation that completed last:
\* called after a successful start_monitoring, and before a stop of the
\* task it created has begun, it returns is_monitoring true; called after
\* a successful stop_monitoring it returns is_monitoring false.
C12_StatusReflectsLastOperation ==
  [][ get_status =>
        /\ ( /\ response = Reply("start", 200, "Monitoring started")
             /\ waiter[monitor_task] = "none" ) =>
               response'.detail = "is_monitoring: true"
        /\ response = Reply("stop", 200, "Monitoring stopped") =>
               response'.detail = "is_monitoring: false"
    ]_vars

\* C13: a cycle issues at most one update call per occurrence of a ticket,
\* failed or not, and a ticket whose update failed in the cycle before is
\* evaluated again in a finished cycle that fetched it, with an update call
\* if the fetched record still matches the rule.
C13_FailedUpdateRetriedNextCycleOnly ==
  \A t \in TaskIds :
     /\ \A i, j \in 1..Len(tasks[t].updates) :
           i # j => tasks[t].updates[i].pos # tasks[t].updates[j].pos
     /\ CycleEnded(t) =>
           \A i \in 1..Len(tasks[t].tickets) :
              ( /\ WellFormed(tasks[t].tickets[i])
                /\ tasks[t].tickets[i].id.v \in tasks[t].prev_failed ) =>
                 /\ i <= tasks[t].evaluated
                 /\ Matches(tasks[t].tickets[i]) =>
                      \E k \in 1..Len(tasks[t].updates) :
                         /\ tasks[t].updates[k].pos = i
                         /\ tasks[t].updates[k].id = tasks[t].tickets[i].id.v

\* C14: under weak fairness of the event loop, a stop_monitoring that
\* suspended in `await monitor_task` eventually returns, and the task it
\* cancelled eventually is done, wherever the task was suspended.
C14_StopEventuallyReturns ==
  \A t \in TaskIds :
     (waiter[t] = "stop") ~> (waiter[t] = "none" /\ tasks[t].pc = "done")

\* a stop has returned after it cancelled a task that had begun a cycle
C14_Witness ==
  /\ response = Reply("stop", 200, "Monitoring stopped")
  /\ \E t \in TaskIds :
        /\ tasks[t].pc = "done" /\ tasks[t].result = "cancelled"
        /\ tasks[t].cycle >= 1
        /\ waiter[t] = "none"

\* C15: whenever is_monitoring is true and no handler is suspended in
\* `await monitor_task`, monitor_task is a task that has not terminated.
C15_FlagImpliesLiveTask ==
  (is_monitoring /\ \A t \in TaskIds : waiter[t] = "none") =>
     /\ monitor_task # 0
     /\ tasks[monitor_task].pc \notin {"none", "done"}

\* C16: a task whose cancellation was requested while it is suspended in
\* client.get or client.put takes one more step only, which ends it as
\* cancelled: it starts no fetch and no update call, and the tickets left
\* in its cycle are abandoned.
C16_CancelDuringCallEndsTask ==
  [][ \A t \in TaskIds :
         (tasks[t].pc \in {"fetch", "update"} /\ tasks[t].cancel) =>
            \/ tasks'[t] = tasks[t]
            \/ /\ tasks'[t].pc = "done"
               /\ tasks'[t].result = "cancelled"
               /\ tasks'[t].cycle = tasks[t].cycle
               /\ tasks'[t].updates = <<>>
               /\ tasks'[t].evaluated = tasks[t].evaluated
    ]_vars

\* a handler has requested the cancellation of a task that is suspended in
\* the PUT of an update, and waits for it
C16_Witness ==
  \E t \in TaskIds :
     /\ tasks[t].pc = "update" /\ tasks[t].cancel
     /\ waiter[t] \in {"stop", "shutdown"}

\* C17: startup_event, run from the initial state, sets is_monitoring and
\* creates exactly one task, which monitor_task refers to, so that a start
\* request that is the first request after startup is refused with 400; a startup that finds is_monitoring true changes nothing.
C17_StartupStartsMonitoring ==
  [][ /\ startup_event =>
            IF is_monitoring
              THEN UNCHANGED <<is_monitoring, monitor_task, tasks>>
              ELSE /\ is_monitoring'
                   /\ monitor_task' \notin Created
                   /\ Created' = Created \cup {monitor_task'}
                   /\ tasks'[monitor_task'] = NewTask
                   /\ \A t \in Created : tasks'[t] = tasks[t]
      /\ ( /\ start_monitoring
           /\ response = Reply("startup", 200, "")
           /\ \A t \in TaskIds : waiter[t] = "none" ) =>
            /\ response' = Reply("start", 400, "Monitoring is already running")
            /\ UNCHANGED <<is_monitoring, monitor_task, tasks>>
    ]_vars

\* the first start request after startup has been refused: the task of
\* startup is the only one ever created
C17_Witness ==
  /\ response = Reply("start", 400, "Monitoring is already running")
  /\ is_monitoring
  /\ Created = {1} /\ monitor_task = 1

\* C18: once shutdown_event has completed, is_monitoring is false and no
\* task is active, whatever stop and start requests came before it.
C18_ShutdownLeavesNothingRunning ==
  phase = "down" => (~is_monitoring /\ Active = {})

\* C19: get_status changes nothing of the run state and answers the value
\* is_monitoring has when it is called.
C19_StatusIsReadOnly ==
  [][ get_status =>
        /\ UNCHANGED <<is_monitoring, monitor_task, tasks, waiter, phase>>
        /\ response'.status = 200
        /\ response'.detail = "is_monitoring: true" <=> is_monitoring
        /\ response'.detail = "is_monitoring: false" <=> ~is_monitoring
    ]_vars

\* a status request has been answered `false` while the handle of the
\* stopped task is still held and that task has not yet terminated
C19_Witness ==
  /\ response = Reply("status", 200, "is_monitoring: false")
  /\ ~is_monitoring
  /\ monitor_task # 0 /\ monitor_task \in Active

====
